---- MODULE Spec2Model ----
(***************************************************************************)
(* Job admission and lifecycle of the IndexTTS2 REST services.             *)
(*                                                                         *)
(* The repository holds two services with the same lifecycle:              *)
(*   app = "db"  : the api/ package (routes/jobs.py, services/*.py), whose *)
(*                 job store is the SQL table `tasks`;                     *)
(*   app = "mem" : the single-file service api.py, whose job store is the  *)
(*                 module-level dict `tasks`.                              *)
(* One state machine models both; `app` is fixed by Init.                  *)
(*                                                                         *)
(* A step of the model is one run of a coroutine between two points where  *)
(* it can be suspended for good (a blocked semaphore acquire, the          *)
(* synthesis call in the worker thread), or one request handler.  Store    *)
(* writes of the db service become visible at session.commit(); the model  *)
(* keeps the committed store.                                              *)
(***************************************************************************)
EXTENDS Integers, Sequences, FiniteSets, TLC

\* ---------------------------------------------------------------- bounds
MaxJobs == 2        \* job ids are 1..MaxJobs (uuid4 values, never reused)
MaxTime == 1        \* the clock runs over 0..MaxTime
MaxCapacity == 2    \* MAX_CONCURRENT_TASKS is configured in 1..MaxCapacity
Retention == 0      \* TASK_RETENTION when enabled, in clock units

Jobs == 1..MaxJobs
Times == 0..MaxTime

\* ------------------------------------------------------------- constants
\* progress is stored in halves: 0 is 0.0, Full is 1.0
Full == 2

PENDING == "pending"
PROCESSING == "processing"
COMPLETED == "completed"
FAILED == "failed"
TaskStatus == {PENDING, PROCESSING, COMPLETED, FAILED}

\* An Optional[T] field is the empty set (None) or a singleton.
None == {}
Some(x) == {x}

\* the principals get_current_user resolves a token to (User.id); api.py
\* has no authentication and its tasks have no owner
Users == {"alice", "bob"}

\* str(e) of the exceptions the synthesis engine raises
Errors == {"synthesis error"}

\* the two uploads of a submit request: the speaker prompt and the optional
\* emotion reference
UploadKinds == {"prompt", "emo"}

VARIABLES
    app,                \* which service runs
    capacity,           \* settings.MAX_CONCURRENT_TASKS
    value,              \* asyncio.Semaphore._value: the free permits
    tasks,              \* the job store: job id -> record
    nextId,             \* number of job ids handed out so far
    now,                \* the clock
    pc,                 \* position of each job's background execution
    outcome,            \* what the synthesis call did: "none", "ok", "error"
    exit,               \* how each execution left: "none", "returned", "raised"
    gr_progress,        \* the model's gr_progress: 0 (original) or the job whose wrapper is installed
    original_callback,  \* each execution's saved gr_progress
    files,              \* output artifacts on disk, named by job id
    temp,               \* uploaded input files on disk, named by job id
    total_generations,  \* users.total_generations, summed over the users
    retention,          \* settings.TASK_RETENTION, in clock units; negative: disabled
    cleanup_task,       \* position of the cleanup_old_tasks coroutine
    lifespan,           \* "serving" between startup and shutdown, then "stopped"
    swept,              \* (history) the job ids a sweep tick found expired
    rm_failed,          \* (history) the job ids whose os.remove(output_file) raised
    unremovable,        \* the kinds of upload whose os.remove raises on this host
    utc_offset,         \* the host's local time minus UTC, in clock units
    ticks,              \* (history) "none", "raised" after a tick that raised, "raised, swept" after a later sweep
    response            \* (history) status code of the last submit or refused request, 0 before any

vars == <<app, capacity, value, tasks, nextId, now, pc, outcome, exit, gr_progress,
          original_callback, files, temp, total_generations, retention,
          cleanup_task, lifespan, swept, rm_failed, unremovable, utc_offset,
          ticks, response>>

\* ------------------------------------------------------------ job store
Stored == DOMAIN tasks

Put(store, j, rec) == [k \in (DOMAIN store) \cup {j} |-> IF k = j THEN rec ELSE store[k]]

Remove(store, S) == [k \in (DOMAIN store) \ S |-> store[k]]

\* TaskService.create_task / TaskInfo(...) in generate_speech
NewTask(t) ==
    [status |-> PENDING, progress |-> 0, message |-> "Task queued",
     output_file |-> None, error |-> None,
     created_at |-> t, completed_at |-> None, queue_position |-> None]

\* TaskService.create_task(task_id=..., user_id=user.id, ...) as create_job
\* calls it: the new row carries its owner and the input parameters of the
\* request (of which the model keeps the temperature)
create_task(task_id, user_id, temperature, t) ==
    NewTask(t) @@ [user_id |-> user_id, temperature |-> temperature]

\* TaskService.get_task(task_id, user_id=user.id) as the routes call it: the
\* row with this id when the caller owns it, else None
get_task(store, task_id, user_id) ==
    IF task_id \in DOMAIN store /\ store[task_id].user_id = user_id
    THEN Some(task_id) ELSE None

\* TaskService.get_tasks(user_id=user.id, ...) as list_jobs calls it
get_tasks(store, user_id) == {k \in DOMAIN store : store[k].user_id = user_id}

\* TaskService.update_task_status: a no-op when the task is absent; fields
\* passed as None (the empty set) are left alone; completed_at on COMPLETED.
update_task_status(store, j, status, progress, message, output_file, error, t) ==
    IF j \notin DOMAIN store THEN store
    ELSE Put(store, j,
        [store[j] EXCEPT
            !.status = status,
            !.progress = IF progress # None THEN CHOOSE p \in progress : TRUE ELSE @,
            !.message = IF message # None THEN CHOOSE m \in message : TRUE ELSE @,
            !.output_file = IF output_file # None THEN output_file ELSE @,
            !.error = IF error # None THEN error ELSE @,
            !.completed_at = IF status = COMPLETED THEN Some(t) ELSE @])

\* ------------------------------------------------------- queue position
PendingJobs(store) == {k \in DOMAIN store : store[k].status = PENDING}

\* (mutant) the count without the "- 1": a 1-indexed position
db_get_queue_position_one_indexed(store, j) ==
    IF j \in DOMAIN store /\ store[j].status = PENDING
    THEN Some(Cardinality({k \in {i \in DOMAIN store : store[i].status = PENDING} :
                              store[k].created_at <= store[j].created_at}))
    ELSE {}

\* TaskService.get_queue_position: COUNT(pending, created_at <= mine) - 1
db_get_queue_position(store, j) ==
    IF j \notin DOMAIN store \/ store[j].status # PENDING THEN None
    ELSE Some(Cardinality({k \in PendingJobs(store) :
                              store[k].created_at <= store[j].created_at}) - 1)

\* api.py get_queue_position: index of the task in the list, in dict
\* (insertion = id) order, of the pending tasks created no later than it
mem_get_queue_position(store, j) ==
    LET pending_tasks == {k \in PendingJobs(store) :
                              store[k].created_at <= store[j].created_at}
    IN  IF j \in pending_tasks
        THEN Some(Cardinality({k \in pending_tasks : k < j}))
        ELSE None

get_queue_position(j) ==
    IF app = "db" THEN db_get_queue_position(tasks, j)
    ELSE mem_get_queue_position(tasks, j)

\* ------------------------------------------------------------ semaphore
\* (mutant) an acquire that never blocks
CanAcquire_unguarded == TRUE

\* `async with semaphore`: the permit is taken when one is free
CanAcquire == value > 0

Acquired == value - 1

\* (mutant) an exit path that does not release
Released_missing == value

Released == value + 1

\* executions inside `async with semaphore`
Holders == {j \in Jobs : pc[j] = "running"}

\* -------------------------------------------------------------- sweeper
\* (mutant) a sweeper without the "disabled" check
sweeper_disabled_never(r) == FALSE

\* main.py cleanup_old_tasks: `if settings.TASK_RETENTION < 0: return`
sweeper_disabled(r) == r < 0

\* ----------------------------------------------------------------- Init
\* The state when lifespan reaches its `yield`: the semaphore is created and
\* the cleanup task, created by asyncio.create_task, has run to its first
\* suspension (the sleep) or, with retention disabled, has returned.
\* `retentions` are the values TASK_RETENTION may be configured to in the
\* api/ service; api.py hard-codes it.  `locks` are the sets of upload kinds
\* whose files the host may refuse to remove.  `offsets` are the differences
\* between the host's local time and UTC (api.py reads one clock only).
Startup(retentions, locks, offsets) ==
    /\ app \in {"db", "mem"}
    /\ capacity \in 1..MaxCapacity
    /\ value = capacity
    /\ tasks = << >>
    /\ nextId = 0
    /\ now = 0
    /\ pc = [j \in Jobs |-> "none"]
    /\ outcome = [j \in Jobs |-> "none"]
    /\ exit = [j \in Jobs |-> "none"]
    /\ gr_progress = 0
    /\ original_callback = [j \in Jobs |-> 0]
    /\ files = {}
    /\ temp = {}
    /\ total_generations = 0
    /\ retention \in (IF app = "db" THEN retentions ELSE {Retention})
    /\ cleanup_task = (IF sweeper_disabled(retention) THEN "returned" ELSE "sleeping")
    /\ lifespan = "serving"
    /\ swept = {}
    /\ rm_failed = {}
    /\ ticks = "none"
    /\ unremovable \in locks
    /\ utc_offset \in (IF app = "db" THEN offsets ELSE {0})
    /\ response = 0

\* the services with the sweeper enabled, on a host where every upload can
\* be removed
Init == Startup({Retention}, {{}}, {0})

\* the services with TASK_RETENTION enabled or disabled (-1)
InitLifespan == Startup({-1, Retention}, {{}}, {0})

\* the services on hosts whose local time is UTC or one clock unit ahead
\* of it
InitTimezone == Startup({Retention}, {{}}, {0, 1})

\* the services on a host where the removal of some kinds of upload raises
InitUploads == Startup({Retention}, SUBSET UploadKinds, {0})

\* ---------------------------------------------------------------- clock
\* (mutant) a clock with a watchdog: the synthesis calls in flight are
\* cancelled when time passes, their jobs fail with "Task timeout" and
\* their permits are released
Tick_with_watchdog ==
    /\ lifespan = "serving"
    /\ now < MaxTime
    /\ now' = now + 1
    /\ tasks' = [k \in DOMAIN tasks |->
                    IF pc[k] = "running"
                    THEN [tasks[k] EXCEPT !.status = FAILED, !.error = Some("Task timeout")]
                    ELSE tasks[k]]
    /\ pc' = [j \in Jobs |-> IF pc[j] = "running" THEN "done" ELSE pc[j]]
    /\ value' = value + Cardinality({j \in Jobs : pc[j] = "running"})
    /\ UNCHANGED <<outcome, app, capacity, unremovable, utc_offset, ticks, response, retention, cleanup_task, lifespan, swept,
                   rm_failed, nextId, exit, gr_progress,
                   original_callback, files, temp, total_generations>>

Tick ==
    /\ lifespan = "serving"
    /\ now < MaxTime
    /\ now' = now + 1
    /\ UNCHANGED <<outcome, app, capacity, unremovable, utc_offset, ticks, response, retention, cleanup_task, lifespan, swept,
                   rm_failed, value, tasks, nextId, pc, exit, gr_progress,
                   original_callback, files, temp, total_generations>>

\* ------------------------------------------------------------- requests
\* settings.MAX_TEXT_LENGTH / Config.MAX_TEXT_LENGTH
MAX_TEXT_LENGTH == 500

\* settings.MAX_AUDIO_SIZE / Config.MAX_AUDIO_SIZE
MAX_AUDIO_SIZE == 10 * 1024 * 1024

\* some members of SUPPORTED_AUDIO_FORMATS
SUPPORTED_AUDIO_FORMATS == {".wav", ".mp3"}

valid_modes == {"speaker", "reference", "vector", "text"}

\* An upload: its size in bytes and the extension of its file name ("" when
\* the name has none).
Upload(size, ext) == [size |-> size, ext |-> ext]

\* The form of a submit request: the length of `text`, the prompt upload,
\* the optional emotion upload, `temperature` in tenths, emo_mode, and
\* whether emo_text is given.
PlainRequest ==
    [text_len |-> 12, prompt_audio |-> Upload(4096, ".wav"), emo_audio |-> None,
     temperature |-> 8, emo_mode |-> "speaker", emo_text |-> FALSE]

\* a form with an emotion reference upload
ReferenceRequest ==
    [PlainRequest EXCEPT !.emo_mode = "reference",
                         !.emo_audio = Some(Upload(4096, ".mp3"))]

\* accepted forms that upload the prompt only: the plain one, the limits
\* of the checks, text mode
ValidRequests ==
    {PlainRequest,
     [PlainRequest EXCEPT !.text_len = MAX_TEXT_LENGTH],
     [PlainRequest EXCEPT !.prompt_audio = Upload(MAX_AUDIO_SIZE, "")],
     [PlainRequest EXCEPT !.emo_mode = "text", !.emo_text = TRUE]}

\* forms with one defect each: text too long, audio too large, unsupported
\* extension, unknown emo_mode, a mode without its input, temperature out
\* of range (too low, too high), emotion upload too large or unsupported
DefectiveRequests ==
    {[PlainRequest EXCEPT !.text_len = MAX_TEXT_LENGTH + 1],
     [PlainRequest EXCEPT !.prompt_audio = Upload(MAX_AUDIO_SIZE + 1, ".wav")],
     [PlainRequest EXCEPT !.prompt_audio = Upload(4096, ".exe")],
     [PlainRequest EXCEPT !.emo_mode = "happy"],
     [PlainRequest EXCEPT !.emo_mode = "reference"],
     [PlainRequest EXCEPT !.emo_mode = "text"],
     [PlainRequest EXCEPT !.temperature = 0],
     [PlainRequest EXCEPT !.temperature = 21],
     [PlainRequest EXCEPT !.emo_mode = "reference",
                          !.emo_audio = Some(Upload(MAX_AUDIO_SIZE + 1, ".wav"))],
     [PlainRequest EXCEPT !.emo_mode = "reference",
                          !.emo_audio = Some(Upload(4096, ".exe"))]}

Requests == ValidRequests \cup DefectiveRequests

\* temperature: float = Form(0.8, ge=0.1, le=2.0): FastAPI answers 422
\* before the handler runs
form_in_range(req) == req.temperature >= 1 /\ req.temperature <= 20

\* validate_audio_format: only a non-empty extension outside the supported
\* set is refused
validate_audio_format(upload) ==
    upload.ext = "" \/ upload.ext \in SUPPORTED_AUDIO_FORMATS

\* the checks of create_job, in the order of the code; 202 when all pass
create_job_validate(req) ==
    IF ~form_in_range(req) THEN 422
    ELSE IF req.text_len > MAX_TEXT_LENGTH THEN 400
    ELSE IF req.prompt_audio.size # 0 /\ req.prompt_audio.size > MAX_AUDIO_SIZE THEN 400
    ELSE IF ~validate_audio_format(req.prompt_audio) THEN 400
    ELSE IF req.emo_mode \notin valid_modes THEN 400
    ELSE IF req.emo_mode = "reference" /\ req.emo_audio = None THEN 400
    ELSE IF req.emo_mode = "text" /\ ~req.emo_text THEN 400
    ELSE 202

\* the checks of api.py generate_speech, which also looks at the emotion
\* upload; 200 when all pass
generate_speech_validate(req) ==
    IF ~form_in_range(req) THEN 422
    ELSE IF req.text_len > MAX_TEXT_LENGTH THEN 400
    ELSE IF req.prompt_audio.size > MAX_AUDIO_SIZE THEN 400
    ELSE IF \E u \in req.emo_audio : u.size > MAX_AUDIO_SIZE THEN 400
    ELSE IF ~validate_audio_format(req.prompt_audio) THEN 400
    ELSE IF \E u \in req.emo_audio : ~validate_audio_format(u) THEN 400
    ELSE IF req.emo_mode \notin valid_modes THEN 400
    ELSE IF req.emo_mode = "reference" /\ req.emo_audio = None THEN 400
    ELSE IF req.emo_mode = "text" /\ ~req.emo_text THEN 400
    ELSE 200

\* (mutant) a handler that goes on after a failed check
passed_always(code) == TRUE

\* no HTTPException was raised by the checks
passed(code) == code \in {200, 202}

\* save_upload_file for the prompt and, when given, the emotion upload
SavedUploads(job_id, req) ==
    {<<job_id, "prompt">>} \cup (IF req.emo_audio # None THEN {<<job_id, "emo">>} ELSE {})

\* the uploads of job j that are on disk
UploadsOf(files_on_disk, j) == {f \in files_on_disk : f[1] = j}

\* --------------------------------------------------------------- submit
\* routes/jobs.py create_job: validate, save the uploads, create_task,
\* add_task
create_job_by(user, req) ==
    /\ lifespan = "serving"
    /\ app = "db"
    /\ nextId < MaxJobs
    /\ response' = create_job_validate(req)
    /\ IF passed(create_job_validate(req))
       THEN LET job_id == nextId + 1 IN
            /\ nextId' = job_id
            /\ temp' = temp \cup SavedUploads(job_id, req)
            /\ tasks' = Put(tasks, job_id, create_task(job_id, user, req.temperature, now))
            /\ pc' = [pc EXCEPT ![job_id] = "scheduled"]
       ELSE UNCHANGED <<nextId, temp, tasks, pc>>
    /\ UNCHANGED <<outcome, app, capacity, unremovable, utc_offset, ticks, retention, cleanup_task, lifespan, swept,
                   rm_failed, value, now, exit, gr_progress,
                   original_callback, files, total_generations>>

\* POST /v1/tts/jobs by any of the users
create_job(req) == \E user \in Users : create_job_by(user, req)

\* api.py generate_speech evaluates get_queue_position(task_id) before the
\* task is stored: the comprehension reads tasks[task_id] for the first
\* pending task it meets, which raises KeyError (the request ends in a 500
\* after the upload was saved); with no pending task the result is None.
generate_speech_raises(store) == PendingJobs(store) # {}

generate_speech(req) ==
    /\ lifespan = "serving"
    /\ app = "mem"
    /\ nextId < MaxJobs
    /\ IF passed(generate_speech_validate(req))
       THEN LET task_id == nextId + 1 IN
            /\ nextId' = task_id
            /\ temp' = temp \cup SavedUploads(task_id, req)
            /\ IF generate_speech_raises(tasks)
               THEN response' = 500 /\ UNCHANGED <<tasks, pc>>
               ELSE /\ response' = generate_speech_validate(req)
                    /\ tasks' = Put(tasks, task_id, NewTask(now))
                    /\ pc' = [pc EXCEPT ![task_id] = "scheduled"]
       ELSE /\ response' = generate_speech_validate(req)
            /\ UNCHANGED <<nextId, temp, tasks, pc>>
    /\ UNCHANGED <<outcome, app, capacity, unremovable, utc_offset, ticks, retention, cleanup_task, lifespan, swept,
                   rm_failed, value, now, exit, gr_progress,
                   original_callback, files, total_generations>>

\* ------------------------------------------------- execution, db service
\* TTSService.cleanup_temp_files: each path that exists is removed inside
\* its own try/except, so a removal that raises leaves only that file
cleanup_temp_files(files_on_disk, j) ==
    files_on_disk \ {f \in UploadsOf(files_on_disk, j) : f[2] \notin unremovable}

\* the finally block of api.py run_tts_generation: both removals sit in one
\* try/except, so when the prompt's removal raises the emotion upload is
\* not reached
mem_cleanup_temp_files(files_on_disk, j) ==
    IF <<j, "prompt">> \in files_on_disk /\ "prompt" \in unremovable
    THEN files_on_disk
    ELSE cleanup_temp_files(files_on_disk, j)

\* (mutant) an execution that does not write Processing before it goes for
\* the semaphore
MarkProcessing_skipped(store, j) == store

\* _run_tts_generation, first update and commit
MarkProcessing(store, j) ==
    update_task_status(store, j, PROCESSING, None, Some("Starting generation..."), None, None, now)

\* (mutant) the COMPLETED update without output_file
MarkCompleted_no_file(store, j) ==
    update_task_status(store, j, COMPLETED, Some(Full), Some("Generation completed"),
                       None, None, now)

\* _run_tts_generation, the update after generate returned
MarkCompleted(store, j) ==
    update_task_status(store, j, COMPLETED, Some(Full), Some("Generation completed"),
                       Some(j), None, now)

\* (mutant) the FAILED update without the error text
MarkFailed_no_error(store, j, e) ==
    update_task_status(store, j, FAILED, None, None, None, None, now)

\* _run_tts_generation, the except branch
MarkFailed(store, j, e) ==
    update_task_status(store, j, FAILED, None, None, None, Some(e), now)

db_start(j) ==
    /\ lifespan = "serving"
    /\ app = "db"
    /\ pc[j] = "scheduled"
    /\ tasks' = MarkProcessing(tasks, j)
    /\ pc' = [pc EXCEPT ![j] = "started"]
    /\ UNCHANGED <<outcome, app, capacity, unremovable, utc_offset, ticks, response, retention, cleanup_task, lifespan, swept,
                   rm_failed, value, nextId, now, exit, gr_progress,
                   original_callback, files, temp, total_generations>>

\* TTSService.generate up to the synthesis call: install the progress
\* wrapper, then enter `async with self.semaphore`
db_generate(j) ==
    /\ lifespan = "serving"
    /\ app = "db"
    /\ pc[j] = "started"
    /\ original_callback' = [original_callback EXCEPT ![j] = gr_progress]
    /\ gr_progress' = j
    /\ IF CanAcquire
       THEN value' = Acquired /\ pc' = [pc EXCEPT ![j] = "running"]
       ELSE value' = value /\ pc' = [pc EXCEPT ![j] = "waiting"]
    /\ UNCHANGED <<outcome, app, capacity, unremovable, utc_offset, ticks, response, retention, cleanup_task, lifespan, swept,
                   rm_failed, tasks, nextId, now, exit, files, temp,
                   total_generations>>

\* the blocked acquire returns
db_admit(j) ==
    /\ lifespan = "serving"
    /\ app = "db"
    /\ pc[j] = "waiting"
    /\ CanAcquire
    /\ value' = Acquired
    /\ pc' = [pc EXCEPT ![j] = "running"]
    /\ UNCHANGED <<outcome, app, capacity, unremovable, utc_offset, ticks, response, retention, cleanup_task, lifespan, swept,
                   rm_failed, tasks, nextId, now, exit, gr_progress,
                   original_callback, files, temp, total_generations>>

\* the synthesis call returns: leave the semaphore, restore gr_progress
\* (finally), update COMPLETED, count the generation, commit, clean up
db_finish_ok(j) ==
    /\ lifespan = "serving"
    /\ app = "db"
    /\ pc[j] = "running"
    /\ value' = Released
    /\ gr_progress' = original_callback[j]
    /\ files' = files \cup {j}
    /\ tasks' = MarkCompleted(tasks, j)
    /\ total_generations' = total_generations + 1
    /\ temp' = cleanup_temp_files(temp, j)
    /\ pc' = [pc EXCEPT ![j] = "done"]
    /\ exit' = [exit EXCEPT ![j] = "returned"]
    /\ outcome' = [outcome EXCEPT ![j] = "ok"]
    /\ UNCHANGED <<app, capacity, unremovable, utc_offset, ticks, response, retention, cleanup_task, lifespan, swept,
                   rm_failed, nextId, now, original_callback>>

\* the synthesis call raises e: leave the semaphore, restore gr_progress
\* (finally), update FAILED, commit, clean up
db_finish_error(j) ==
    /\ lifespan = "serving"
    /\ app = "db"
    /\ pc[j] = "running"
    /\ \E e \in Errors :
        tasks' = MarkFailed(tasks, j, e)
    /\ value' = Released
    /\ gr_progress' = original_callback[j]
    /\ temp' = cleanup_temp_files(temp, j)
    /\ pc' = [pc EXCEPT ![j] = "done"]
    /\ exit' = [exit EXCEPT ![j] = "returned"]
    /\ outcome' = [outcome EXCEPT ![j] = "error"]
    /\ UNCHANGED <<app, capacity, unremovable, utc_offset, ticks, response, retention, cleanup_task, lifespan, swept,
                   rm_failed, nextId, now, original_callback, files,
                   total_generations>>

\* ------------------------------------------------ execution, mem service
\* api.py run_tts_generation reads tasks[task_id] without a guard: on a
\* task deleted meanwhile the statement raises KeyError, `except Exception`
\* catches it, and its own tasks[task_id] raises KeyError again, which
\* leaves run_tts_generation after the finally block.
KeyErrorEscapes(store, j) == j \notin DOMAIN store

\* tasks[task_id].status = PROCESSING; .message = "Starting generation..."
mem_mark_processing(store, j) ==
    Put(store, j, [store[j] EXCEPT !.status = PROCESSING, !.message = "Starting generation..."])

\* tasks[task_id].queue_position = None, inside the semaphore
mem_clear_position(store, j) ==
    Put(store, j, [store[j] EXCEPT !.queue_position = None])

\* the five assignments after the synthesis call returned
mem_mark_completed(store, j, t) ==
    Put(store, j, [store[j] EXCEPT !.status = COMPLETED, !.progress = Full,
                                   !.message = "Generation completed",
                                   !.completed_at = Some(t),
                                   !.output_file = Some(j)])

\* except Exception: status = FAILED; error = str(e)
mem_mark_failed(store, j, e) ==
    Put(store, j, [store[j] EXCEPT !.status = FAILED, !.error = Some(e)])

\* run_tts_generation from its start to the synthesis call or to the
\* blocked acquire
mem_start(j) ==
    /\ lifespan = "serving"
    /\ app = "mem"
    /\ pc[j] = "scheduled"
    /\ IF KeyErrorEscapes(tasks, j)
       THEN /\ pc' = [pc EXCEPT ![j] = "done"]
            /\ exit' = [exit EXCEPT ![j] = "raised"]
            /\ temp' = mem_cleanup_temp_files(temp, j)
            /\ UNCHANGED <<tasks, value, gr_progress, original_callback>>
       ELSE /\ original_callback' = [original_callback EXCEPT ![j] = gr_progress]
            /\ gr_progress' = j
            /\ IF CanAcquire
               THEN /\ value' = Acquired
                    /\ tasks' = mem_clear_position(mem_mark_processing(tasks, j), j)
                    /\ pc' = [pc EXCEPT ![j] = "running"]
               ELSE /\ value' = value
                    /\ tasks' = mem_mark_processing(tasks, j)
                    /\ pc' = [pc EXCEPT ![j] = "waiting"]
            /\ UNCHANGED <<exit, temp>>
    /\ UNCHANGED <<outcome, app, capacity, unremovable, utc_offset, ticks, response, retention, cleanup_task, lifespan, swept,
                   rm_failed, nextId, now, files, total_generations>>

\* the blocked acquire returns; on a deleted task the KeyError leaves the
\* `async with`, which releases the permit again
mem_admit(j) ==
    /\ lifespan = "serving"
    /\ app = "mem"
    /\ pc[j] = "waiting"
    /\ CanAcquire
    /\ IF KeyErrorEscapes(tasks, j)
       THEN /\ pc' = [pc EXCEPT ![j] = "done"]
            /\ exit' = [exit EXCEPT ![j] = "raised"]
            /\ temp' = mem_cleanup_temp_files(temp, j)
            /\ UNCHANGED <<tasks, value>>
       ELSE /\ value' = Acquired
            /\ tasks' = mem_clear_position(tasks, j)
            /\ pc' = [pc EXCEPT ![j] = "running"]
            /\ UNCHANGED <<exit, temp>>
    /\ UNCHANGED <<outcome, app, capacity, unremovable, utc_offset, ticks, response, retention, cleanup_task, lifespan, swept,
                   rm_failed, nextId, now, gr_progress, original_callback,
                   files, total_generations>>

\* the synthesis call returns: leave the semaphore, restore gr_progress,
\* record the result
mem_finish_ok(j) ==
    /\ lifespan = "serving"
    /\ app = "mem"
    /\ pc[j] = "running"
    /\ value' = Released
    /\ gr_progress' = original_callback[j]
    /\ files' = files \cup {j}
    /\ IF KeyErrorEscapes(tasks, j)
       THEN tasks' = tasks /\ exit' = [exit EXCEPT ![j] = "raised"]
       ELSE /\ tasks' = mem_mark_completed(tasks, j, now)
            /\ exit' = [exit EXCEPT ![j] = "returned"]
    /\ temp' = mem_cleanup_temp_files(temp, j)
    /\ pc' = [pc EXCEPT ![j] = "done"]
    /\ outcome' = [outcome EXCEPT ![j] = "ok"]
    /\ UNCHANGED <<app, capacity, unremovable, utc_offset, ticks, response, retention, cleanup_task, lifespan, swept,
                   rm_failed, nextId, now, original_callback,
                   total_generations>>

\* the synthesis call raises e: leave the semaphore (gr_progress is only
\* restored on the normal path), record the failure
mem_finish_error(j) ==
    /\ lifespan = "serving"
    /\ app = "mem"
    /\ pc[j] = "running"
    /\ value' = Released
    /\ IF KeyErrorEscapes(tasks, j)
       THEN tasks' = tasks /\ exit' = [exit EXCEPT ![j] = "raised"]
       ELSE /\ \E e \in Errors : tasks' = mem_mark_failed(tasks, j, e)
            /\ exit' = [exit EXCEPT ![j] = "returned"]
    /\ temp' = mem_cleanup_temp_files(temp, j)
    /\ pc' = [pc EXCEPT ![j] = "done"]
    /\ outcome' = [outcome EXCEPT ![j] = "error"]
    /\ UNCHANGED <<app, capacity, unremovable, utc_offset, ticks, response, retention, cleanup_task, lifespan, swept,
                   rm_failed, nextId, now, gr_progress, original_callback,
                   files, total_generations>>

\* (mutant) a callback that writes status = PROCESSING with the progress,
\* as update_progress of routes/tts.py does
mem_progress_callback_sets_status(store, k, p) ==
    IF k \in DOMAIN store
    THEN Put(store, k, [store[k] EXCEPT !.status = PROCESSING, !.progress = p,
                                        !.message = "progress"])
    ELSE store

\* progress_callback of the execution whose wrapper is installed
mem_progress_callback(store, k, p) ==
    IF k \in DOMAIN store
    THEN Put(store, k, [store[k] EXCEPT !.progress = p, !.message = "progress"])
    ELSE store

\* progress_callback of _run_tts_generation: `pass`
db_progress_callback(store, k, p) == store

\* model.gr_progress(p, m) as the engine calls it: the installed wrapper
\* passes (p, m) to the progress_callback of the execution that installed
\* it; the original gr_progress reports to nobody
gr_progress_call(store, p) ==
    IF gr_progress = 0 THEN store
    ELSE IF app = "db" THEN db_progress_callback(store, gr_progress, p)
    ELSE mem_progress_callback(store, gr_progress, p)

\* the synthesis call of job j reports progress p through model.gr_progress
report_progress(j, p) ==
    /\ lifespan = "serving"
    /\ pc[j] = "running"
    /\ gr_progress # 0
    /\ tasks' = gr_progress_call(tasks, p)
    /\ UNCHANGED <<outcome, app, capacity, unremovable, utc_offset, ticks, response, retention, cleanup_task, lifespan, swept,
                   rm_failed, value, nextId, now, pc, exit, gr_progress,
                   original_callback, files, temp, total_generations>>

\* ------------------------------------------------------ polling, delete
\* api.py get_task_status stores the position it computes
get_task_status(j) ==
    /\ lifespan = "serving"
    /\ app = "mem"
    /\ j \in Stored
    /\ tasks[j].status = PENDING
    /\ tasks' = Put(tasks, j, [tasks[j] EXCEPT !.queue_position = get_queue_position(j)])
    /\ UNCHANGED <<outcome, app, capacity, unremovable, utc_offset, ticks, response, retention, cleanup_task, lifespan, swept,
                   rm_failed, value, nextId, now, pc, exit, gr_progress,
                   original_callback, files, temp, total_generations>>

\* os.remove(output_file) inside try/except: the files gone after an attempt
\* on `artifacts` when the removal of those in `failed` raised
Removed(files_on_disk, artifacts, failed) == files_on_disk \ (artifacts \ failed)

\* (mutant) the lookup of delete_job without the owner
delete_job_found_unscoped(store, j, user) == j \in DOMAIN store

\* delete_job: `task = get_task(job_id, user_id=user.id)`, 404 if not task
delete_job_found(store, j, user) == get_task(store, j, user) # None

\* the artifacts a delete removes: output_file set and the file on disk
ArtifactsOf(store, S) == {k \in S : store[k].output_file # None} \cap files

\* DELETE /v1/tts/jobs/{job_id} by `user`: TaskService.delete_task removes
\* the output file (a failure is printed), then the row
delete_job(user, j) ==
    /\ lifespan = "serving"
    /\ app = "db"
    /\ delete_job_found(tasks, j, user)
    /\ \E failed \in SUBSET ArtifactsOf(tasks, {j}) :
        /\ files' = Removed(files, ArtifactsOf(tasks, {j}), failed)
        /\ rm_failed' = rm_failed \cup failed
    /\ tasks' = Remove(tasks, {j})
    /\ UNCHANGED <<outcome, app, capacity, unremovable, utc_offset, ticks, response, retention, cleanup_task, lifespan, swept,
                   value, nextId, now, pc, exit, gr_progress,
                   original_callback, temp, total_generations>>

\* api.py delete_task: remove the output file (a failure is printed), then
\* the record
delete_task(j) ==
    /\ lifespan = "serving"
    /\ app = "mem"
    /\ j \in Stored
    /\ \E failed \in SUBSET ArtifactsOf(tasks, {j}) :
        /\ files' = Removed(files, ArtifactsOf(tasks, {j}), failed)
        /\ rm_failed' = rm_failed \cup failed
    /\ tasks' = Remove(tasks, {j})
    /\ UNCHANGED <<outcome, app, capacity, unremovable, utc_offset, ticks, response, retention, cleanup_task, lifespan, swept,
                   value, nextId, now, pc, exit, gr_progress,
                   original_callback, temp, total_generations>>

\* ----------------------------------------------------------- sweep tick
\* the reading of the clock the api/ sweeper takes: datetime.now(), the
\* host's local time without zone
local_now(t) == t + utc_offset

\* db: created_at < cutoff, where created_at is the database's
\* CURRENT_TIMESTAMP (server_default=func.now(), UTC in SQLite) and cutoff is
\* datetime.now() - retention (local time).  mem: time.time() -
\* created_at.timestamp() > retention, both from the same clock.
Expired(store, t) ==
    {k \in DOMAIN store : store[k].created_at < local_now(t) - retention}

\* (mutant) a sweep that gives up at the first removal that raises
SweptRecords_abort(expired, failed) == IF failed = {} THEN expired ELSE {}

\* the records one tick deletes: every expired task, its file removed or not
SweptRecords(expired, failed) == expired

\* one tick of cleanup_old_tasks: the sleep returns, the expired tasks'
\* files and records are removed, the coroutine sleeps again
cleanup_old_tasks ==
    /\ lifespan = "serving"
    /\ cleanup_task = "sleeping"
    /\ Expired(tasks, now) # {}
    /\ \E failed \in SUBSET ArtifactsOf(tasks, Expired(tasks, now)) :
        /\ files' = Removed(files, ArtifactsOf(tasks, Expired(tasks, now)), failed)
        /\ rm_failed' = rm_failed \cup failed
        /\ tasks' = Remove(tasks, SweptRecords(Expired(tasks, now), failed))
    /\ swept' = swept \cup Expired(tasks, now)
    /\ ticks' = (IF ticks = "raised" THEN "raised, swept" ELSE ticks)
    /\ UNCHANGED <<outcome, app, capacity, unremovable, utc_offset, response, retention, cleanup_task, lifespan,
                   value, nextId, now, pc, exit, gr_progress,
                   original_callback, temp, total_generations>>

\* (mutant) a loop that an exception in a tick ends
after_tick_error_ends == "returned"

\* `except Exception as e: print(...)` inside `while True`: the coroutine
\* goes round the loop to the next sleep
after_tick_error == "sleeping"

\* one tick of cleanup_old_tasks that raises (the query, the commit or a
\* print fails): artifacts removed before the exception are gone, no record
\* is deleted (the session is closed without commit; api.py deletes the
\* records after its loop over them)
cleanup_tick_raises ==
    /\ lifespan = "serving"
    /\ cleanup_task = "sleeping"
    /\ \E removed \in SUBSET ArtifactsOf(tasks, Expired(tasks, now)) :
        files' = files \ removed
    /\ cleanup_task' = after_tick_error
    /\ ticks' = "raised"
    /\ UNCHANGED <<outcome, app, capacity, unremovable, utc_offset, retention, lifespan, swept,
                   rm_failed, value, tasks, nextId, now, pc, exit, gr_progress,
                   original_callback, temp, total_generations, response>>

\* ------------------------------------------------------------- shutdown
\* lifespan after its `yield`; the server runs it once the requests and
\* their background tasks have ended.  main.py cancels the cleanup task and
\* awaits it: a sleeping task catches CancelledError, breaks and returns, a
\* returned one is left alone.  api.py cancels without awaiting.
shutdown ==
    /\ lifespan = "serving"
    /\ \A j \in Jobs : pc[j] \in {"none", "done"}
    /\ lifespan' = "stopped"
    /\ cleanup_task' = IF app = "db" THEN "returned" ELSE "cancelling"
    /\ UNCHANGED <<outcome, app, capacity, unremovable, utc_offset, ticks, response, retention, swept, rm_failed, value, tasks,
                   nextId, now, pc, exit, gr_progress, original_callback, files,
                   temp, total_generations>>

\* ----------------------------------------------------------------- Next
Next ==
    \/ Tick
    \/ \E req \in {PlainRequest} : create_job(req)
    \/ \E req \in {PlainRequest} : generate_speech(req)
    \/ \E j \in Jobs : db_start(j)
    \/ \E j \in Jobs : db_generate(j)
    \/ \E j \in Jobs : db_admit(j)
    \/ \E j \in Jobs : db_finish_ok(j)
    \/ \E j \in Jobs : db_finish_error(j)
    \/ \E j \in Jobs : mem_start(j)
    \/ \E j \in Jobs : mem_admit(j)
    \/ \E j \in Jobs : mem_finish_ok(j)
    \/ \E j \in Jobs : mem_finish_error(j)
    \/ \E j \in Jobs : \E p \in 1..Full : report_progress(j, p)
    \/ \E j \in Jobs : get_task_status(j)
    \/ \E user \in Users : \E j \in Jobs : delete_job(user, j)
    \/ \E j \in Jobs : delete_task(j)
    \/ cleanup_old_tasks

Spec == Init /\ [][Next]_vars

\* one step of the background execution of job j, in either service
Execute(j) ==
    \/ db_start(j)
    \/ db_generate(j)
    \/ db_admit(j)
    \/ db_finish_ok(j)
    \/ db_finish_error(j)
    \/ mem_start(j)
    \/ mem_admit(j)
    \/ mem_finish_ok(j)
    \/ mem_finish_error(j)

\* the event loop runs every background task that can take a step, and
\* every synthesis call returns or raises
Fairness == \A j \in Jobs : WF_vars(Execute(j))

\* the services with one permit under submissions, executions and deletes,
\* with a fair event loop
InitFair == Init /\ capacity = 1

NextFair ==
    \/ \E req \in {PlainRequest} : create_job(req)
    \/ \E req \in {PlainRequest} : generate_speech(req)
    \/ \E j \in Jobs : Execute(j)
    \/ \E user \in Users : \E j \in Jobs : delete_job(user, j)
    \/ \E j \in Jobs : delete_task(j)

SpecFair == InitFair /\ [][NextFair]_vars /\ Fairness

\* the whole life of the process: startup with either retention setting,
\* the steps of Next while serving, and the shutdown
NextLifespan ==
    \/ Next
    \/ shutdown

SpecLifespan == InitLifespan /\ [][NextLifespan]_vars

\* the life of the services with one permit, under submissions, executions,
\* sweep ticks that succeed or raise, and the shutdown
InitSweeper == InitLifespan /\ capacity = 1

NextSweeper ==
    \/ Tick
    \/ \E req \in {PlainRequest} : create_job(req)
    \/ \E req \in {PlainRequest} : generate_speech(req)
    \/ \E j \in Jobs : Execute(j)
    \/ cleanup_old_tasks
    \/ cleanup_tick_raises
    \/ shutdown

SpecSweeper == InitSweeper /\ [][NextSweeper]_vars

\* the services on hosts in either time zone
SpecTimezone == InitTimezone /\ [][Next]_vars

\* the services with one permit under every form of submit request,
\* accepted or refused
InitRequests == Init /\ capacity = 1

NextRequests ==
    \/ Next
    \/ \E req \in Requests : create_job(req)
    \/ \E req \in Requests : generate_speech(req)

SpecRequests == InitRequests /\ [][NextRequests]_vars

\* the services under requests with and without an emotion upload, on
\* hosts where the removal of uploads may raise
NextUploads ==
    \/ Next
    \/ \E req \in {ReferenceRequest} : create_job(req)
    \/ \E req \in {ReferenceRequest} : generate_speech(req)

SpecUploads == InitUploads /\ [][NextUploads]_vars

\* the api/ service with one permit, under the operations that create and
\* update the rows GET /v1/tts/jobs reads (the rows of one caller among
\* those of another already make every set of ids a set of matches)
InitListing == Init /\ app = "db" /\ capacity = 1

NextListing ==
    \/ Tick
    \/ \E req \in {PlainRequest} : create_job(req)
    \/ \E j \in Jobs : db_start(j)
    \/ \E j \in Jobs : db_generate(j)
    \/ \E j \in Jobs : db_admit(j)
    \/ \E j \in Jobs : db_finish_ok(j)
    \/ \E j \in Jobs : db_finish_error(j)

SpecListing == InitListing /\ [][NextListing]_vars

\* ------------------------------------------------------------ responses
\* The body of GET /v1/tts/jobs/{id} (get_job) and of GET /v1/tts/status/{id}
\* (api.py get_task_status, which returns the record it has just updated).
JobInfo(j) ==
    LET t == tasks[j] IN
    [status |-> t.status, progress |-> t.progress, message |-> t.message,
     completed_at |-> t.completed_at, error |-> t.error,
     queue_position |->
        IF t.status = PENDING THEN get_queue_position(j)
        ELSE IF app = "db" THEN None ELSE t.queue_position]

\* GET /v1/tts/jobs/{job_id} by `user`
get_job(user, j) ==
    IF get_task(tasks, j, user) = None THEN [code |-> 404]
    ELSE [code |-> 200, body |-> JobInfo(j)]

\* GET /v1/tts/jobs by `user` (no status filter, one page): the job ids listed
list_jobs(user) == get_tasks(tasks, user)

\* the values of the query parameters of GET /v1/tts/jobs: status (absent or
\* one of the statuses), page (ge=1) and page_size (ge=1); the pages run up
\* to the last one that can hold a job
StatusFilters == {None} \cup {Some(s) : s \in TaskStatus}

Pages == 1..MaxJobs

PageSizes == {1, 2}

\* the WHERE clause of the listing and of the count: the rows of the caller,
\* with the status asked for when one is given (`if status:`)
Matching(store, user_id, status) ==
    {k \in get_tasks(store, user_id) : status = None \/ store[k].status \in status}

\* TaskService.count_tasks(user_id=..., status=...)
count_tasks(store, user_id, status) == Cardinality(Matching(store, user_id, status))

\* ORDER BY created_at DESC over the rows S: every arrangement of S in which
\* created_at never increases (rows created at the same instant come in an
\* order the database chooses)
order_by_created_at_desc(store, S) ==
    LET n == Cardinality(S) IN
    {q \in [1..n -> S] :
        /\ \A a \in 1..(n - 1) :
              store[q[a]].created_at >= store[q[a + 1]].created_at
        /\ \A a, b \in 1..n : a # b => q[a] # q[b]}

\* LIMIT limit OFFSET offset applied to the ordered rows q
limit_offset(q, limit, offset) ==
    [i \in 1..(IF Len(q) - offset < 0 THEN 0
               ELSE IF Len(q) - offset < limit THEN Len(q) - offset
               ELSE limit) |-> q[offset + i]]

\* TaskService.get_tasks(user_id, status, limit, offset): the lists of rows
\* the query may return
get_tasks_query(store, user_id, status, limit, offset) ==
    {limit_offset(q, limit, offset) :
        q \in order_by_created_at_desc(store, Matching(store, user_id, status))}

\* (mutant) an offset that counts pages from zero
list_offset_from_page(page, page_size) == page * page_size

\* offset = (page - 1) * page_size
list_offset(page, page_size) == (page - 1) * page_size

\* ceil(total / page_size) if total > 0 else 0
total_pages(total, page_size) ==
    IF total > 0 THEN (total + page_size - 1) \div page_size ELSE 0

\* GET /v1/tts/jobs?status=&page=&page_size= by `user`: the bodies the
\* request may be answered with
list_jobs_page(user, status, page, page_size) ==
    LET total == count_tasks(tasks, user, status) IN
    {[jobs |-> rows, total |-> total, page |-> page, page_size |-> page_size,
      total_pages |-> total_pages(total, page_size)] :
        rows \in get_tasks_query(tasks, user, status, page_size,
                                 list_offset(page, page_size))}

\* the status code DELETE /v1/tts/jobs/{job_id} by `user` answers with
delete_job_code(user, j) == IF delete_job_found(tasks, j, user) THEN 200 ELSE 404

\* the status code DELETE /v1/tts/tasks/{task_id} of api.py answers with
delete_task_code(j) == IF j \in Stored THEN 200 ELSE 404

\* (mutant) a download that does not look at the status
download_ready_any_status(status) == TRUE

\* download_audio / download_result: 425 unless the status is COMPLETED
download_ready(status) == status = COMPLETED

\* GET /v1/tts/jobs/{job_id}/audio by `user`: the file only for a Completed
\* job whose output_file is set and on disk
download_audio(user, j) ==
    IF get_task(tasks, j, user) = None THEN [code |-> 404]
    ELSE IF ~download_ready(tasks[j].status) THEN [code |-> 425]
    ELSE IF tasks[j].output_file = None THEN [code |-> 404]
    ELSE IF tasks[j].output_file \cap files = {} THEN [code |-> 404]
    ELSE [code |-> 200, file |-> tasks[j].output_file]

\* api.py GET /v1/tts/download/{task_id}
download_result(j) ==
    IF j \notin Stored THEN [code |-> 404]
    ELSE IF ~download_ready(tasks[j].status) THEN [code |-> 425]
    ELSE IF tasks[j].output_file = None \/ tasks[j].output_file \cap files = {}
         THEN [code |-> 404]
    ELSE [code |-> 200, file |-> tasks[j].output_file]

\* ------------------------------------------------------- authentication
\* The users table: alice and bob are active, carol is deactivated; no
\* other id has a row (dave's was deleted).
users_table ==
    [u \in Users \cup {"carol"} |-> [is_active |-> (u \in Users)]]

\* a time after the end of the clock
Never == MaxTime + 1

\* A bearer token: the "sub" of its payload, whether its signature is made
\* with JWT_SECRET_KEY, and its "exp".
Token(sub, signed, exp) == [sub |-> sub, signed |-> signed, exp |-> exp]

Tokens ==
    {Token("alice", TRUE, Never),
     Token("alice", FALSE, Never), Token("alice", TRUE, 0),
     Token("carol", TRUE, Never), Token("dave", TRUE, Never),
     Token("not-a-number", TRUE, Never)}

\* what HTTPBearer(auto_error=False) hands over: None without an
\* Authorization header, else the token
Credentials == {None} \cup {Some(token) : token \in Tokens}

\* AuthService.decode_token at time t: jwt.decode checks the signature and
\* "exp" (ExpiredSignatureError once exp <= now); None on either failure
decode_token(token, t) ==
    IF token.signed /\ token.exp > t THEN Some(token) ELSE None

\* AuthService.get_user_id_from_token: int(payload["sub"]), None when the
\* token does not decode or "sub" is not a number
get_user_id_from_token(token, t) ==
    IF decode_token(token, t) = None THEN None
    ELSE IF token.sub = "not-a-number" THEN None
    ELSE Some(token.sub)

\* (mutant) a resolver that does not look at is_active
account_active_unchecked(user_id) == TRUE

\* `if not user.is_active` of get_current_user
account_active(user_id) == users_table[user_id].is_active

\* dependencies.get_current_user: 401 without credentials, for a token that
\* does not yield a user id and for an id without a row; 403 for a
\* deactivated user; else the user
get_current_user(credentials) ==
    IF credentials = None THEN [code |-> 401]
    ELSE LET token == CHOOSE x \in credentials : TRUE
             user_id == get_user_id_from_token(token, now)
         IN  IF user_id = None THEN [code |-> 401]
             ELSE LET id == CHOOSE x \in user_id : TRUE IN
                  IF id \notin DOMAIN users_table THEN [code |-> 401]
                  ELSE IF ~account_active(id) THEN [code |-> 403]
                  ELSE [code |-> 200, user |-> id]

\* a request that get_current_user refuses: the HTTPException is the
\* response, the handler does not run
refused(code) ==
    /\ lifespan = "serving"
    /\ app = "db"
    /\ response' = code
    /\ UNCHANGED <<outcome, app, capacity, unremovable, utc_offset, ticks, retention, cleanup_task,
                   lifespan, swept, rm_failed, value, tasks, nextId, now, pc, exit,
                   gr_progress, original_callback, files, temp, total_generations>>

\* POST /v1/tts/jobs with `credentials`: user = Depends(get_current_user)
create_job_request(credentials, req) ==
    IF get_current_user(credentials).code # 200
    THEN refused(get_current_user(credentials).code)
    ELSE create_job_by(get_current_user(credentials).user, req)

\* DELETE /v1/tts/jobs/{job_id} with `credentials`
delete_job_request(credentials, j) ==
    IF get_current_user(credentials).code # 200
    THEN refused(get_current_user(credentials).code)
    ELSE delete_job(get_current_user(credentials).user, j)

\* GET /v1/tts/jobs/{job_id}, GET /v1/tts/jobs/{job_id}/audio and
\* GET /v1/tts/jobs with `credentials`
get_job_request(credentials, j) ==
    IF get_current_user(credentials).code # 200
    THEN [code |-> get_current_user(credentials).code]
    ELSE get_job(get_current_user(credentials).user, j)

download_audio_request(credentials, j) ==
    IF get_current_user(credentials).code # 200
    THEN [code |-> get_current_user(credentials).code]
    ELSE download_audio(get_current_user(credentials).user, j)

list_jobs_request(credentials) ==
    IF get_current_user(credentials).code # 200
    THEN [code |-> get_current_user(credentials).code]
    ELSE [code |-> 200, jobs |-> list_jobs(get_current_user(credentials).user)]

\* the api/ service with one permit under requests that carry credentials
InitAuth == Init /\ app = "db" /\ capacity = 1

NextAuth ==
    \/ \E credentials \in Credentials : create_job_request(credentials, PlainRequest)
    \/ \E credentials \in Credentials : \E j \in Jobs : delete_job_request(credentials, j)
    \/ \E j \in Jobs : db_start(j)
    \/ \E j \in Jobs : db_generate(j)
    \/ \E j \in Jobs : db_admit(j)
    \/ \E j \in Jobs : db_finish_ok(j)

SpecAuth == InitAuth /\ [][NextAuth]_vars

Terminal == {COMPLETED, FAILED}

ProcessingJobs == {j \in Stored : tasks[j].status = PROCESSING}

TypeOK ==
    /\ app \in {"db", "mem"}
    /\ capacity \in 1..MaxCapacity
    /\ value \in 0..capacity
    /\ Stored \subseteq 1..nextId
    /\ \A j \in Stored :
        /\ tasks[j].status \in TaskStatus
        /\ tasks[j].progress \in 0..Full
        /\ tasks[j].created_at \in Times
    /\ nextId \in 0..MaxJobs
    /\ now \in Times
    /\ pc \in [Jobs -> {"none", "scheduled", "started", "waiting", "running", "done"}]
    /\ outcome \in [Jobs -> {"none", "ok", "error"}]
    /\ exit \in [Jobs -> {"none", "returned", "raised"}]
    /\ gr_progress \in 0..MaxJobs
    /\ files \subseteq Jobs
    /\ temp \subseteq Jobs \X UploadKinds
    /\ retention \in {-1, Retention}
    /\ cleanup_task \in {"sleeping", "returned", "cancelling"}
    /\ lifespan \in {"serving", "stopped"}
    /\ swept \subseteq Jobs
    /\ rm_failed \subseteq Jobs
    /\ unremovable \subseteq UploadKinds
    /\ utc_offset \in {0, 1}
    /\ ticks \in {"none", "raised", "raised, swept"}
    /\ response \in {0, 200, 202, 400, 401, 403, 422, 500}

\* ================================================================ claims

\* C1: in every reachable state the number of executions inside the
\* semaphore (inside the synthesis call) is at most MAX_CONCURRENT_TASKS.
C1_AdmissionBound == Cardinality(Holders) <= capacity

\* C1 witness: the semaphore is full and another execution is blocked on it.
C1_Witness ==
    /\ Cardinality(Holders) = capacity
    /\ \E j \in Jobs : pc[j] = "waiting"

\* C2 (as claimed): at most `capacity` jobs have stored status Processing.
\* Both services store Processing before they acquire the semaphore.
C2_ProcessingBound == Cardinality(ProcessingJobs) <= capacity

\* C3: a stored job's status only moves Pending -> Processing ->
\* {Completed, Failed}; no step changes a terminal status, moves Processing
\* back to Pending or Pending straight to a terminal status, and a removed
\* job id never comes back.
Forward(a, b) ==
    \/ a = b
    \/ a = PENDING /\ b = PROCESSING
    \/ a = PROCESSING /\ b \in Terminal

C3_StatusForward ==
    [][\A j \in Jobs :
        /\ (j \in DOMAIN tasks /\ j \in DOMAIN tasks')
              => Forward(tasks[j].status, tasks'[j].status)
        /\ (j \notin DOMAIN tasks /\ j <= nextId) => j \notin DOMAIN tasks']_vars

\* C3 witness: a job is terminal while its progress wrapper is still the
\* installed one and another job's synthesis call is running.
C3_Witness ==
    \E j \in Stored : \E k \in Jobs \ {j} :
        /\ tasks[j].status \in Terminal
        /\ gr_progress = j
        /\ pc[k] = "running"

\* C4: for every stored job, output_file is set iff the status is Completed
\* and error is set iff the status is Failed.
C4_ResultIffCompleted ==
    \A j \in Stored :
        /\ tasks[j].output_file # None <=> tasks[j].status = COMPLETED
        /\ tasks[j].error # None <=> tasks[j].status = FAILED

\* C4 witness: a Completed and a Failed job are stored together.
C4_Witness ==
    \E j, k \in Stored :
        tasks[j].status = COMPLETED /\ tasks[k].status = FAILED

\* C5 (as claimed): completed_at is set exactly for the jobs that are
\* Completed or Failed.  The code sets it on COMPLETED only.
C5_CompletedAtIffTerminal ==
    \A j \in Stored :
        tasks[j].completed_at # None <=> tasks[j].status \in Terminal

\* C6: permits are conserved: the free permits plus the executions inside
\* the semaphore always equal the capacity, so a permit is released exactly
\* once on every exit path, the free permits never exceed the capacity and
\* are all free when no execution is inside.
C6_PermitsConserved ==
    /\ value + Cardinality(Holders) = capacity
    /\ value <= capacity
    /\ Holders = {} => value = capacity

\* C6 witness: one synthesis call returned, another raised, and all the
\* permits are free again.
C6_Witness ==
    \E j, k \in Jobs :
        /\ outcome[j] = "ok"
        /\ outcome[k] = "error"
        /\ Holders = {}
        /\ value = capacity

\* C7: the step in which the synthesis call of job j raises leaves j, when
\* it is still stored, Failed with an error text, and hands back j's permit
\* so that a waiting execution can acquire it.
C7_AdapterErrorFails ==
    [][\A j \in Jobs :
        (outcome[j] = "none" /\ outcome'[j] = "error") =>
            /\ j \in DOMAIN tasks =>
                  /\ j \in DOMAIN tasks'
                  /\ tasks'[j].status = FAILED
                  /\ tasks'[j].error # None
            /\ pc'[j] = "done"
            /\ value' = value + 1]_vars

\* C7 witness: with capacity 1, a job is Failed after its synthesis call
\* raised and the other job holds the permit it gave back.
C7_Witness ==
    \E j \in Stored : \E k \in Jobs \ {j} :
        /\ capacity = 1
        /\ outcome[j] = "error"
        /\ tasks[j].status = FAILED
        /\ pc[k] = "running"

\* C8 (as claimed): whenever a synthesis call ends in an error, or any other
\* error occurs in the execution after the job was marked Processing, the
\* execution returns normally and the job is left Failed, also when the job
\* was deleted or swept while it ran.
C8_ErrorsAbsorbed ==
    [][\A j \in Jobs :
        (pc[j] = "running" /\ pc'[j] = "done") =>
            /\ exit'[j] = "returned"
            /\ outcome'[j] = "error" =>
                  (j \in DOMAIN tasks' /\ tasks'[j].status = FAILED)]_vars

\* C9 (as claimed): a stored job whose execution has not been admitted by
\* the semaphore yet is reported as Pending, with a queue position.
C9_WaitingIsPending ==
    \A j \in Stored :
        pc[j] \in {"scheduled", "started", "waiting"} =>
            /\ JobInfo(j).status = PENDING
            /\ JobInfo(j).queue_position # None

\* C10: for every Pending job the queue position is the number of other
\* Pending jobs whose created_at is no later than its own.
C10_QueuePositionCount ==
    \A j \in PendingJobs(tasks) :
        get_queue_position(j) =
            Some(Cardinality({k \in PendingJobs(tasks) \ {j} :
                                 tasks[k].created_at <= tasks[j].created_at}))

\* C10 witness: two Pending jobs share a created_at.
C10_Witness ==
    \E j, k \in PendingJobs(tasks) :
        j # k /\ tasks[j].created_at = tasks[k].created_at

\* C11 (as claimed): a step that stores a new job leaves the queue position
\* of every job that was Pending before it unchanged, also when the new job
\* gets the created_at of an existing one.
C11_CreateKeepsPositions ==
    [][\A j \in PendingJobs(tasks) :
        (nextId' # nextId /\ j \in DOMAIN tasks') =>
            (IF app = "db" THEN db_get_queue_position(tasks', j)
                           ELSE mem_get_queue_position(tasks', j))
              = get_queue_position(j)]_vars

\* C12 (as claimed): the positions of the k Pending jobs are pairwise
\* distinct and are exactly 0..k-1, jobs with equal created_at ranked by
\* insertion (job id) order.
C12_RanksUnambiguous ==
    LET P == PendingJobs(tasks) IN
    /\ \A j, k \in P : j # k => get_queue_position(j) # get_queue_position(k)
    /\ {get_queue_position(j) : j \in P} = {Some(i) : i \in 0..(Cardinality(P) - 1)}
    /\ \A j, k \in P :
          (tasks[j].created_at = tasks[k].created_at /\ j < k) =>
              \E a \in get_queue_position(j) : \E b \in get_queue_position(k) : a < b

\* C13 (as claimed): the response for a job that is not Pending carries no
\* queue position, whatever was polled before.
C13_NoPositionUnlessPending ==
    \A j \in Stored :
        tasks[j].status # PENDING => JobInfo(j).queue_position = None

DeleteCodes(j) ==
    IF app = "db" THEN {delete_job_code(user, j) : user \in Users}
    ELSE {delete_task_code(j)}

DownloadCodes(j) ==
    IF app = "db" THEN {download_audio(user, j).code : user \in Users}
    ELSE {download_result(j).code}

\* a step that is a delete request for job id j
DeleteStep(j) == delete_task(j) \/ \E user \in Users : delete_job(user, j)

\* C15 (as claimed): a delete and a result fetch of a job id that is no
\* longer stored answer 404, and a delete of a Completed job removes its
\* artifact from the disk.  The handlers swallow a failing os.remove and
\* delete the record all the same.
C15_DeleteRemovesArtifact ==
    /\ [](\A j \in (1..nextId) \ Stored :
            DeleteCodes(j) = {404} /\ DownloadCodes(j) = {404})
    /\ [][\A j \in Jobs :
            (DeleteStep(j) /\ tasks[j].status = COMPLETED) => j \notin files']_vars

\* the answer to a result fetch of job j by the caller who may see it
Download(j) ==
    IF app = "db" THEN download_audio(tasks[j].user_id, j) ELSE download_result(j)

\* C16: a result fetch answers 404 for a job id that is not stored, 425 for
\* a stored job that is Pending, Processing or Failed, and hands out a file
\* only for a Completed job, whose own artifact it is.
C16_DownloadOnlyCompleted ==
    /\ \A j \in Jobs \ Stored : DownloadCodes(j) = {404}
    /\ \A j \in Stored :
        /\ tasks[j].status # COMPLETED => Download(j).code = 425
        /\ DownloadCodes(j) \subseteq {200, 404, 425}
        /\ 200 \in DownloadCodes(j) =>
              /\ tasks[j].status = COMPLETED
              /\ Download(j).file = Some(j)
              /\ j \in files

\* C16 witness: a Failed job is refused with 425 while a Completed job's
\* file is served.
C16_Witness ==
    \E j, k \in Stored :
        /\ tasks[j].status = FAILED
        /\ Download(j).code = 425
        /\ tasks[k].status = COMPLETED
        /\ Download(k).code = 200

\* C17 (as claimed): once a sweep tick has run later than created_at +
\* retention of a job, the job is absent from the store and its artifact is
\* not on disk, whatever its status was at the tick (a removal that raised
\* is left aside as best effort).  A job swept while its synthesis call runs
\* gets its artifact written afterwards.
C17_SweptGone ==
    \A j \in swept \ rm_failed : j \notin Stored /\ j \notin files

\* C18: a sweep tick deletes the record of every expired job, also of those
\* whose artifact removal raised, and removes the artifact of every expired
\* job whose own removal did not raise.
C18_SweepBestEffort ==
    [][cleanup_old_tasks =>
        \A j \in Expired(tasks, now) :
            /\ j \notin DOMAIN tasks'
            /\ j \in swept'
            /\ (j \in files' /\ j \in ArtifactsOf(tasks, {j})) => j \in rm_failed']_vars

\* C18 witness: one tick swept both jobs; the removal of the first job's
\* artifact raised, the second job's artifact is gone, no record is left.
C18_Witness ==
    /\ swept = {1, 2}
    /\ 1 \in rm_failed
    /\ 1 \in files
    /\ outcome[2] = "ok"
    /\ 2 \notin files
    /\ Stored = {}

\* C19: in the api/ service with TASK_RETENTION < 0 the cleanup task has
\* started and returned at startup and never sweeps a job, however old; and
\* after shutdown (cancel, then await) the cleanup task has returned,
\* whether it was sleeping or had returned before.
C19_DisabledRetention ==
    app = "db" =>
        /\ retention < 0 => (swept = {} /\ cleanup_task = "returned")
        /\ lifespan = "stopped" => cleanup_task = "returned"

\* C19 witness: retention is disabled, the service has shut down, and a job
\* older than the enabled retention would allow is still stored.
C19_Witness ==
    /\ app = "db"
    /\ retention < 0
    /\ lifespan = "stopped"
    /\ \E j \in Stored : tasks[j].created_at < now - Retention

\* C20 (as claimed): a submit stores exactly one new job, Pending with
\* progress 0, the queued message, no result, no error and no completed_at,
\* schedules its execution without running it (no permit is taken), and
\* changes no other stored job.  api.py raises before it stores the task
\* when another task is Pending.
C20_SubmitPersistsPending ==
    [][nextId' # nextId =>
        LET j == nextId' IN
        /\ DOMAIN tasks' = DOMAIN tasks \cup {j}
        /\ j \notin DOMAIN tasks
        /\ tasks'[j].status = PENDING
        /\ tasks'[j].progress = 0
        /\ tasks'[j].message = "Task queued"
        /\ tasks'[j].output_file = None
        /\ tasks'[j].error = None
        /\ tasks'[j].completed_at = None
        /\ pc'[j] = "scheduled"
        /\ value' = value
        /\ \A k \in DOMAIN tasks : tasks'[k] = tasks[k]]_vars

\* a step that is a submit request with form req
SubmitStep(req) == create_job(req) \/ generate_speech(req)

\* C21: a submit request that input validation refuses (status 400 from the
\* handler's checks, 422 from the form's ranges) stores no job, schedules
\* no execution, hands out no job id and saves no upload.
C21_RejectedCreatesNoJob ==
    [][\A req \in Requests :
        (SubmitStep(req) /\ response' \in {400, 422}) =>
            /\ tasks' = tasks
            /\ pc' = pc
            /\ nextId' = nextId
            /\ temp' = temp]_vars

\* C21 witness: the last submit was refused with 400 after the first job
\* had been stored; that job is the only one and no second id was used.
C21_Witness ==
    /\ response = 400
    /\ nextId = 1
    /\ Stored = {1}
    /\ \A j \in Jobs \ {1} : pc[j] = "none"

\* C22 (as claimed): once an execution has exited, on success or failure,
\* the removal of each of the job's uploads has been attempted: an upload
\* still on disk is one whose removal raised.  api.py removes both uploads
\* in one try block, so the emotion upload is not reached when the removal
\* of the prompt raises.
C22_UploadsCleaned ==
    \A j \in Jobs :
        pc[j] = "done" => \A f \in UploadsOf(temp, j) : f[2] \in unremovable

\* C23 (as claimed): a poll (get status, list, get result) leaves the job
\* store as it was.  The handlers of the api/ service only read; api.py
\* get_task_status writes the position it computes into the stored record.
C23_PollingReadOnly ==
    [][\A j \in Jobs : get_task_status(j) => tasks' = tasks]_vars

\* C24 (as claimed): the stored progress is within [0.0, 1.0], is exactly
\* 1.0 for every Completed job, and no step lowers the progress of a job
\* that is Processing before and after it.  api.py stores whatever fraction
\* the installed wrapper is called with, whichever synthesis call reports.
C24_ProgressMonotone ==
    /\ [](\A j \in Stored :
            /\ tasks[j].progress \in 0..Full
            /\ tasks[j].status = COMPLETED => tasks[j].progress = Full)
    /\ [][\A j \in DOMAIN tasks \cap DOMAIN tasks' :
            (tasks[j].status = PROCESSING /\ tasks'[j].status = PROCESSING)
                => tasks'[j].progress >= tasks[j].progress]_vars

\* C25 (as claimed): when the synthesis call of a Processing job reports a
\* fraction, the job's stored progress is at least that fraction afterwards.
\* The callback of the api/ service does nothing, and in api.py the report
\* goes to the job whose wrapper is installed.
C25_ReportsReflected ==
    \A j \in Stored :
        (pc[j] = "running" /\ tasks[j].status = PROCESSING) =>
            \A p \in 1..Full : gr_progress_call(tasks, p)[j].progress >= p

\* executions that have installed their wrapper and not yet left generate
InFlight == {j \in Jobs : pc[j] \in {"waiting", "running"}}

\* C26 (as claimed): a step leaves every Completed or Failed job in the
\* store with its status, output file and error as they were, unless the
\* step is a delete of that job (in the api/ service: by its owner) or a
\* sweep tick at a time when the job is older than the retention window.
\* On a host ahead of UTC the api/ sweeper removes terminal jobs earlier.
C26_TerminalKept ==
    [][\A j \in DOMAIN tasks :
        tasks[j].status \in Terminal =>
            \/ /\ j \in DOMAIN tasks'
               /\ tasks'[j].status = tasks[j].status
               /\ tasks'[j].output_file = tasks[j].output_file
               /\ tasks'[j].error = tasks[j].error
            \/ /\ j \notin DOMAIN tasks'
               /\ DeleteStep(j)
               /\ app = "db" => delete_job(tasks[j].user_id, j)
            \/ /\ j \notin DOMAIN tasks'
               /\ cleanup_old_tasks
               /\ tasks[j].created_at + retention < now]_vars

\* C28: an execution has stored Processing, with the starting message, by
\* the time it goes for the semaphore: every stored job whose execution is
\* past its first update, blocked on the semaphore or inside it, is
\* Processing, and its message is the starting one until a progress report
\* replaces it.
C28_ProcessingBeforeAcquire ==
    \A j \in Stored :
        pc[j] \in {"started", "waiting", "running"} =>
            /\ tasks[j].status = PROCESSING
            /\ \/ tasks[j].message = "Starting generation..."
               \/ app = "mem" /\ tasks[j].message = "progress"

\* C28 witness: a job is Processing with the starting message while its
\* execution is blocked on the semaphore, all permits taken by others.
C28_Witness ==
    \E j \in Stored :
        /\ pc[j] = "waiting"
        /\ value = 0
        /\ tasks[j].status = PROCESSING
        /\ tasks[j].message = "Starting generation..."

\* C29 (as claimed): the wrapper a running synthesis call reports through is
\* its own job's (or none), and a report changes no other job's record.
\* The wrapper is an attribute of the one shared model, so the last
\* execution to install one receives the reports of every running call.
C29_OwnReportsOnly ==
    \A j \in Jobs :
        pc[j] = "running" =>
            /\ gr_progress \in {0, j}
            /\ \A p \in 1..Full : \A k \in Stored \ {j} :
                  gr_progress_call(tasks, p)[k] = tasks[k]

\* C30 (as claimed): when no generate call that installed a wrapper is in
\* flight, the model's gr_progress is the original one.  Each call restores
\* the value it saw when it started, which is another call's wrapper when
\* calls overlap, and api.py does not restore on an exception.
C30_WrapperRestored ==
    InFlight = {} => gr_progress = 0


\* the caller's jobs that match the filter, counted without the listing
\* query: strictly newer than created_at t, and at least as new as t
Newer(user, status, t) ==
    {k \in Stored : /\ tasks[k].user_id = user
                    /\ (status # None => tasks[k].status \in status)
                    /\ tasks[k].created_at > t}

AsNew(user, status, t) ==
    {k \in Stored : /\ tasks[k].user_id = user
                    /\ (status # None => tasks[k].status \in status)
                    /\ tasks[k].created_at >= t}

C31_Liveness ==
    \A j \in Jobs :
        /\ (j \in Stored) ~> (j \notin Stored \/ tasks[j].status \in {COMPLETED, FAILED})
        /\ (pc[j] = "waiting") ~> (pc[j] \in {"running", "done"})

\* one job blocked on the semaphore while another holds the only permit
C31_Witness ==
    \E j, k \in Stored :
        /\ j # k
        /\ capacity = 1
        /\ pc[j] = "waiting"
        /\ pc[k] = "running"
        /\ tasks[j].status = PROCESSING


\* C32: a job deleted or swept while its execution was pending or in flight
\* stays absent (no later step of the execution stores it again), and once
\* that execution has finished no artifact of the job is on disk (a removal
\* that raised apart).
C32_DeletedInFlightLeavesNothing ==
    /\ [][\A j \in 1..nextId : j \notin Stored => j \notin DOMAIN tasks']_vars
    /\ [](\A j \in Jobs :
            (pc[j] = "done" /\ j \notin Stored /\ j \notin rm_failed) => j \notin files)


\* C33: in api.py every generate_speech request that passes validation is
\* answered 200 with the id of a task it has stored as Pending, whatever the
\* registry holds at that moment.
C33_ValidSubmitStored ==
    [][\A req \in Requests :
        (generate_speech(req) /\ passed(generate_speech_validate(req))) =>
            /\ response' = 200
            /\ nextId' \in DOMAIN tasks'
            /\ tasks'[nextId'].status = PENDING
            /\ pc'[nextId'] = "scheduled"]_vars


\* C34: no timeout is enforced.  A job becomes Failed only in the step in
\* which its own synthesis call raised; an execution inside the semaphore
\* leaves it only in the step in which its synthesis call returned or
\* raised; and until then, however far the clock runs, the job (if still
\* stored) is Processing and its permit is not free.
C34_NoTimeout ==
    /\ [][\A j \in Jobs :
            /\ (/\ j \in DOMAIN tasks /\ j \in DOMAIN tasks'
                /\ tasks[j].status # FAILED /\ tasks'[j].status = FAILED)
                    => (pc[j] = "running" /\ outcome[j] = "none" /\ outcome'[j] = "error")
            /\ (pc[j] = "running" /\ pc'[j] # "running")
                    => (outcome[j] = "none" /\ outcome'[j] \in {"ok", "error"})
            /\ (pc[j] = "running" /\ now' > now)
                    => (/\ pc'[j] = "running"
                        /\ value' = value
                        /\ j \in DOMAIN tasks => tasks'[j] = tasks[j])]_vars
    /\ [](\A j \in Jobs :
            pc[j] = "running" =>
                /\ j \in Stored => tasks[j].status = PROCESSING
                /\ value <= capacity - 1)

\* the clock has run to its end while a job created at time 0 is inside
\* its synthesis call, still Processing, holding the only permit
C34_Witness ==
    \E j \in Stored :
        /\ pc[j] = "running"
        /\ outcome[j] = "none"
        /\ tasks[j].status = PROCESSING
        /\ tasks[j].created_at = 0
        /\ now = MaxTime
        /\ capacity = 1
        /\ value = 0


\* C35: in the api/ service the generation counters grow by exactly one in
\* each step in which a job becomes Completed and in no other step (stated
\* on the sum of the users' counters, which the per-user statement implies):
\* one increment per Completed job, none for a Failed one, none without a
\* job that reached Completed.
C35_CountsCompleted ==
    [][app = "db" =>
        total_generations' = total_generations + Cardinality(
            {j \in DOMAIN tasks' :
                /\ tasks'[j].status = COMPLETED
                /\ (j \in DOMAIN tasks => tasks[j].status # COMPLETED)})]_vars


\* C36: a sweep tick leaves every job whose age (now - created_at) is within
\* the retention window as it is, whatever its status: the record stays,
\* unchanged, and so does its artifact.
C36_SweepSparesYoung ==
    [][cleanup_old_tasks =>
        \A j \in DOMAIN tasks :
            now - tasks[j].created_at <= retention =>
                /\ j \in DOMAIN tasks'
                /\ tasks'[j] = tasks[j]
                /\ j \in files => j \in files']_vars


\* C37: a sweep tick that raises leaves the cleanup coroutine in its loop,
\* sleeping towards the next tick, with the service still serving; the
\* coroutine leaves its sleep only in the shutdown step, which cancels it;
\* and after shutdown it is not sleeping any more.
C37_SweeperSurvives ==
    /\ [][cleanup_tick_raises =>
            (cleanup_task' = "sleeping" /\ lifespan' = "serving")]_vars
    /\ [][(cleanup_task = "sleeping" /\ cleanup_task' # "sleeping") => shutdown]_vars
    /\ [](lifespan = "stopped" => cleanup_task # "sleeping")

\* a tick raised, a later tick swept a job, and the shutdown has then ended
\* the loop
C37_Witness ==
    /\ ticks = "raised, swept"
    /\ swept # {}
    /\ lifespan = "stopped"
    /\ cleanup_task # "sleeping"


\* the fields of a record that update_task_status does not take: the
\* creation time, the owner and the stored input parameters, and in api.py
\* the stored queue position
FrameOf(rec) ==
    [f \in (DOMAIN rec) \ {"status", "progress", "message", "output_file",
                           "error", "completed_at"} |-> rec[f]]

\* C38 (as claimed): a step of a job's execution changes, in every record
\* that is stored before and after it, only status, progress, message,
\* output_file, error and completed_at: created_at, the owner and the
\* stored input parameters stay as they were at creation, and so does every
\* other stored field.  api.py also assigns queue_position.
C38_OnlyLifecycleFields ==
    [][(\E k \in Jobs : Execute(k)) =>
        \A j \in (DOMAIN tasks) \cap (DOMAIN tasks') :
            FrameOf(tasks'[j]) = FrameOf(tasks[j])]_vars


\* the credentials the claim calls unauthenticated: none, a token with a
\* bad signature or a malformed subject, an expired token, a token of a user
\* without a row; and those of a deactivated user
Unauthenticated(credentials) ==
    \/ credentials = None
    \/ \E token \in credentials :
        \/ ~token.signed
        \/ token.exp <= now
        \/ token.sub \notin {"alice", "bob", "carol"}

Deactivated(credentials) ==
    /\ ~Unauthenticated(credentials)
    /\ \E token \in credentials : token.sub = "carol"

\* the status the claim gives such a request
RefusalCode(credentials) == IF Unauthenticated(credentials) THEN 401 ELSE 403

\* C39: in the api/ service a create or delete request with unauthenticated
\* credentials is answered 401, and one of a deactivated user 403, and
\* neither creates, changes or deletes a job, an upload or an artifact; a
\* get, download or list request with such credentials is answered with
\* that status and returns no job.
C39_CallerResolvedFirst ==
    /\ [][\A credentials \in Credentials : \A j \in Jobs :
            (/\ Unauthenticated(credentials) \/ Deactivated(credentials)
             /\ \/ create_job_request(credentials, PlainRequest)
                \/ delete_job_request(credentials, j))
            => /\ response' = RefusalCode(credentials)
               /\ tasks' = tasks
               /\ nextId' = nextId
               /\ pc' = pc
               /\ files' = files
               /\ temp' = temp]_vars
    /\ [](\A credentials \in Credentials : \A j \in Jobs :
            (Unauthenticated(credentials) \/ Deactivated(credentials)) =>
                /\ get_job_request(credentials, j) = [code |-> RefusalCode(credentials)]
                /\ download_audio_request(credentials, j) = [code |-> RefusalCode(credentials)]
                /\ list_jobs_request(credentials) = [code |-> RefusalCode(credentials)])

\* a request of the deactivated user has just been refused while alice's
\* Completed job is in the store; her expired token is refused, her current
\* one is not
C39_Witness ==
    /\ response = 403
    /\ \E j \in Stored : tasks[j].user_id = "alice" /\ tasks[j].status = COMPLETED
    /\ get_job_request(Some(Token("alice", TRUE, 0)), 1) = [code |-> 401]
    /\ get_job_request(Some(Token("alice", TRUE, Never)), 1).code = 200

====
